---- MODULE Spec2Model ----
(***************************************************************************)
(* Feed & engagement service of my-sns: the route handlers under app/api   *)
(* (posts, posts/[postId], likes, comments, comments/[commentId], follows) *)
(* over the five relations users, posts, likes, comments, follows and the  *)
(* storage bucket.  Every handler is a sequence of steps, one per awaited  *)
(* access to a relation that other requests can change; the requests in    *)
(* flight are the entries of req.                                           *)
(***************************************************************************)
EXTENDS Integers, Sequences, FiniteSets, TLC

\* ------------------------------------------------------------------------
\* Bounds of the model
\* ------------------------------------------------------------------------
NumClerks == 3      \* auth subjects 1..NumClerks; the last one has no users row
MaxPosts == 2       \* posts ever created
MaxComments == 3    \* comments ever created
MaxTime == 2        \* values of the store clock now()
MaxPage == 2        \* page numbers requested
MaxLimit == 2       \* page sizes requested

\* Program constants
MaxCaption == 2200
PreviewSize == 2

\* ------------------------------------------------------------------------
\* Identifiers and text
\* ------------------------------------------------------------------------
Clerks == 1..NumClerks
NoCaller == 0                       \* auth() gave no userId
Callers == {NoCaller} \cup Clerks
Unsynced == NumClerks               \* a verified subject without a users row
Uid(k) == NumClerks + k             \* users.id of the row whose clerk_id is k
AccountIds == {Uid(k) : k \in Clerks}
PostIds == 1..MaxPosts
CommentIds == 1..MaxComments
Missing == 0                        \* a body field or parameter that is absent

\* A text is <<leading blanks, other characters, trailing blanks>>.
Null == <<>>
Undefined == <<0>>
Txt(l, c, t) == <<l, c, t>>
IsText(x) == Len(x) = 3
Length(x) == x[1] + x[2] + x[3]
Trim(x) == IF x[2] = 0 THEN Txt(0, 0, 0) ELSE Txt(0, x[2], 0)
EmptyText == Txt(0, 0, 0)

VARIABLES users, posts, likes, comments, follows, blobs, now, nextPost,
          nextComment, req, feed

vars == <<users, posts, likes, comments, follows, blobs, now, nextPost,
          nextComment, req, feed>>
store == <<users, posts, likes, comments, follows, blobs>>

Store == [posts |-> posts, likes |-> likes, comments |-> comments,
          follows |-> follows, blobs |-> blobs]

\* ------------------------------------------------------------------------
\* Requests
\* ------------------------------------------------------------------------
Slots == {1, 2}
Other(r) == CHOOSE s \in Slots : s # r

\* The inputs of a request besides its caller and the id it names.
NoInp == [file |-> "none", text |-> Undefined, page |-> 0, limit |-> 0,
          json |-> TRUE]

NoReq == [op |-> "none", pc |-> "idle", caller |-> NoCaller, arg |-> Missing,
          inp |-> NoInp, cur |-> Missing, status |-> 0, body |-> <<>>,
          loc |-> <<>>, q |-> {}, ov |-> FALSE]

InFlight(r) == req[r].pc # "idle"
Done(r) == req[r].pc = "idle" /\ req[r].op # "none"

\* The request record of a handler that has just been entered.
Enter(r, op, caller, arg, inp) ==
    [NoReq EXCEPT !.op = op, !.caller = caller, !.arg = arg, !.inp = inp,
                  !.ov = InFlight(Other(r))]

\* req after slot r took the value rec; a request that enters while the other
\* slot is in flight marks both as overlapping.
Put(r, rec) ==
    [s \in Slots |->
        IF s = r THEN rec
        ELSE IF req[r].pc = "idle" /\ InFlight(s)
             THEN [req[s] EXCEPT !.ov = TRUE]
             ELSE req[s]]

\* The step is one of slot r's request: it enters a handler or moves on in it.
Ident(rec) == <<rec.op, rec.caller, rec.arg, rec.inp, rec.status>>
Moves(r) ==
    \/ req'[r].pc # req[r].pc
    \/ req[r].pc = "idle" /\ Ident(req'[r]) # Ident(req[r])

Answer(rec, status, body) ==
    [rec EXCEPT !.pc = "idle", !.status = status, !.body = body]

\* ------------------------------------------------------------------------
\* The store: lookups
\* ------------------------------------------------------------------------
\* users ... .eq("clerk_id", k).single()
\* UserByClerk matching every row whatever its clerk_id
UserByClerkAny(k) == users

UserByClerk(k) == {u \in users : u.clerk_id = k}
\* users ... .eq("id", id).single()
UserById(id) == {u \in users : u.id = id}
PostById(id) == {p \in posts : p.id = id}
CommentById(id) == {c \in comments : c.id = id}
LikesOf(pid, uid) == {l \in likes : l.post_id = pid /\ l.user_id = uid}
FollowsOf(a, b) == {f \in follows : f.follower_id = a /\ f.following_id = b}

\* The id of a new row of a join relation: distinct from the ids of the rows
\* the relation holds (the store draws a fresh uuid).
FreshId(a, b, same) == <<a, b, Cardinality(same) + 1>>

\* ------------------------------------------------------------------------
\* POST /api/likes
\* ------------------------------------------------------------------------
\* The outcome of likes.insert({post_id, user_id}): the foreign key to posts
\* and the UNIQUE (post_id, user_id) constraint decide it.
InsertLikeCode(pid, uid) ==
    IF PostById(pid) = {} THEN "23503"
    ELSE IF LikesOf(pid, uid) # {} THEN "23505"
    ELSE "ok"

\* LikeStatus without the branch for the unique violation
LikeStatusNoConflict(code) == IF code = "ok" THEN 200 ELSE 500

\* LikeStatus testing for the code of the foreign-key violation instead
LikeStatusWrongCode(code) ==
    IF code = "ok" THEN 200
    ELSE IF code = "23503" THEN 409
    ELSE 500

\* The status the handler answers for the outcome of the insert.
LikeStatus(code) ==
    IF code = "ok" THEN 200
    ELSE IF code = "23505" THEN 409
    ELSE 500

LikeStart(r, caller, postId) ==
    /\ req[r].pc = "idle"
    /\ LET e == Enter(r, "like", caller, postId, NoInp) IN
       req' = Put(r,
          IF caller = NoCaller THEN Answer(e, 401, <<>>)
          ELSE IF postId = Missing THEN Answer(e, 400, <<>>)
          ELSE IF UserByClerk(caller) = {} THEN Answer(e, 404, <<>>)
          ELSE [e EXCEPT !.pc = "insert",
                         !.cur = (CHOOSE u \in UserByClerk(caller) : TRUE).id])
    /\ UNCHANGED <<feed, store, now, nextPost, nextComment>>

LikeInsert(r) ==
    /\ req[r].op = "like" /\ req[r].pc = "insert"
    /\ LET code == InsertLikeCode(req[r].arg, req[r].cur)
           row == [id |-> FreshId(req[r].arg, req[r].cur,
                                  LikesOf(req[r].arg, req[r].cur)),
                   post_id |-> req[r].arg,
                   user_id |-> req[r].cur]
       IN /\ likes' = IF code = "ok" THEN likes \cup {row} ELSE likes
          /\ req' = Put(r, Answer(req[r], LikeStatus(code), <<>>))
    /\ UNCHANGED <<feed, users, posts, comments, follows, blobs, now, nextPost,
                   nextComment>>

\* ------------------------------------------------------------------------
\* DELETE /api/likes
\* ------------------------------------------------------------------------
\* UnlikeRows without .eq("user_id", uid)
UnlikeRowsAnyUser(pid, uid) == {l \in likes : l.post_id = pid}

\* The rows likes.delete().eq("post_id", pid).eq("user_id", uid) removes.
UnlikeRows(pid, uid) == LikesOf(pid, uid)

UnlikeStart(r, caller, postId) ==
    /\ req[r].pc = "idle"
    /\ LET e == Enter(r, "unlike", caller, postId, NoInp) IN
       req' = Put(r,
          IF caller = NoCaller THEN Answer(e, 401, <<>>)
          ELSE IF postId = Missing THEN Answer(e, 400, <<>>)
          ELSE IF UserByClerk(caller) = {} THEN Answer(e, 404, <<>>)
          ELSE [e EXCEPT !.pc = "delete",
                         !.cur = (CHOOSE u \in UserByClerk(caller) : TRUE).id])
    /\ UNCHANGED <<feed, store, now, nextPost, nextComment>>

UnlikeDelete(r) ==
    /\ req[r].op = "unlike" /\ req[r].pc = "delete"
    /\ likes' = likes \ UnlikeRows(req[r].arg, req[r].cur)
    /\ req' = Put(r, Answer(req[r], 200, <<>>))
    /\ UNCHANGED <<feed, users, posts, comments, follows, blobs, now, nextPost,
                   nextComment>>

\* ------------------------------------------------------------------------
\* POST /api/follows, DELETE /api/follows
\* ------------------------------------------------------------------------
\* currentUser.id === followingId
\* IsSelfFollow that never fires
IsSelfFollowNever(cur, followingId) == FALSE

IsSelfFollow(cur, followingId) == cur = followingId

InsertFollowCode(a, b) == IF FollowsOf(a, b) # {} THEN "23505" ELSE "ok"

\* FollowStatus without the branch for the unique violation
FollowStatusNoConflict(code) == IF code = "ok" THEN 200 ELSE 500

FollowStatus(code) ==
    IF code = "ok" THEN 200
    ELSE IF code = "23505" THEN 409
    ELSE 500

FollowStart(r, caller, followingId) ==
    /\ req[r].pc = "idle"
    /\ LET e == Enter(r, "follow", caller, followingId, NoInp)
           me == (CHOOSE u \in UserByClerk(caller) : TRUE).id
       IN
       req' = Put(r,
          IF caller = NoCaller THEN Answer(e, 401, <<>>)
          ELSE IF followingId = Missing THEN Answer(e, 400, <<>>)
          ELSE IF UserByClerk(caller) = {} THEN Answer(e, 404, <<>>)
          ELSE IF IsSelfFollow(me, followingId) THEN Answer(e, 400, <<>>)
          ELSE IF UserById(followingId) = {} THEN Answer(e, 404, <<>>)
          ELSE [e EXCEPT !.pc = "insert", !.cur = me])
    /\ UNCHANGED <<feed, store, now, nextPost, nextComment>>

FollowInsert(r) ==
    /\ req[r].op = "follow" /\ req[r].pc = "insert"
    /\ LET code == InsertFollowCode(req[r].cur, req[r].arg)
           row == [id |-> FreshId(req[r].cur, req[r].arg,
                                  FollowsOf(req[r].cur, req[r].arg)),
                   follower_id |-> req[r].cur,
                   following_id |-> req[r].arg]
       IN /\ follows' = IF code = "ok" THEN follows \cup {row} ELSE follows
          /\ req' = Put(r, Answer(req[r], FollowStatus(code), <<>>))
    /\ UNCHANGED <<feed, users, posts, likes, comments, blobs, now, nextPost,
                   nextComment>>

UnfollowStart(r, caller, followingId) ==
    /\ req[r].pc = "idle"
    /\ LET e == Enter(r, "unfollow", caller, followingId, NoInp) IN
       req' = Put(r,
          IF caller = NoCaller THEN Answer(e, 401, <<>>)
          ELSE IF followingId = Missing THEN Answer(e, 400, <<>>)
          ELSE IF UserByClerk(caller) = {} THEN Answer(e, 404, <<>>)
          ELSE [e EXCEPT !.pc = "delete",
                         !.cur = (CHOOSE u \in UserByClerk(caller) : TRUE).id])
    /\ UNCHANGED <<feed, store, now, nextPost, nextComment>>

UnfollowDelete(r) ==
    /\ req[r].op = "unfollow" /\ req[r].pc = "delete"
    /\ follows' = follows \ FollowsOf(req[r].cur, req[r].arg)
    /\ req' = Put(r, Answer(req[r], 200, <<>>))
    /\ UNCHANGED <<feed, users, posts, likes, comments, blobs, now, nextPost,
                   nextComment>>

\* ------------------------------------------------------------------------
\* POST /api/posts
\* ------------------------------------------------------------------------
StorageBucket == "uploads"
\* getPublicUrl(filePath): the URL ends in /<bucket>/<filePath>.
PublicUrl(path) == <<StorageBucket, path>>
\* url.pathname.match(/\/uploads\/(.+)$/): the path after uploads/, if any.
PathOfUrl(url) == IF url[1] = "uploads" THEN url[2] ELSE Missing

Files == {"none", "text", "big", "image"}

\* caption?.trim() || null
CaptionText(caption) ==
    IF ~IsText(caption) THEN Null
    ELSE IF Trim(caption) = EmptyText THEN Null
    ELSE Trim(caption)

CreatePostStart(r, caller, file, caption, clientOk) ==
    /\ req[r].pc = "idle"
    /\ nextPost <= MaxPosts
    /\ LET e == Enter(r, "createPost", caller, Missing,
                      [NoInp EXCEPT !.file = file, !.text = caption])
           text == CaptionText(caption)
           go == /\ caller # NoCaller
                 /\ file = "image"
                 /\ ~(text # Null /\ Length(text) > MaxCaption)
                 /\ UserByClerk(caller) # {}
                 /\ clientOk
       IN /\ req' = Put(r,
                IF caller = NoCaller THEN Answer(e, 401, <<>>)
                ELSE IF file = "none" THEN Answer(e, 400, <<>>)
                ELSE IF file = "text" THEN Answer(e, 400, <<>>)
                ELSE IF file = "big" THEN Answer(e, 400, <<>>)
                ELSE IF text # Null /\ Length(text) > MaxCaption
                     THEN Answer(e, 400, <<>>)
                ELSE IF UserByClerk(caller) = {} THEN Answer(e, 404, <<>>)
                ELSE IF ~clientOk THEN Answer(e, 500, <<>>)
                ELSE [e EXCEPT !.pc = "upload",
                               !.cur = (CHOOSE u \in UserByClerk(caller) : TRUE).id,
                               !.loc = [path |-> nextPost, caption |-> text,
                                        err |-> {}]])
          /\ nextPost' = IF go THEN nextPost + 1 ELSE nextPost
    /\ UNCHANGED <<feed, store, now, nextComment>>

\* storage.from(bucket).upload(filePath, imageFile)
CreatePostUpload(r, ok) ==
    /\ req[r].op = "createPost" /\ req[r].pc = "upload"
    /\ blobs' = IF ok THEN blobs \cup {req[r].loc.path} ELSE blobs
    /\ req' = Put(r, IF ok THEN [req[r] EXCEPT !.pc = "insert"]
                     ELSE Answer([req[r] EXCEPT !.loc.err = {"upload"}],
                                 500, <<>>))
    /\ UNCHANGED <<feed, users, posts, likes, comments, follows, now, nextPost,
                   nextComment>>

\* posts.insert({user_id, image_url, caption}).select().single()
CreatePostInsert(r, ok) ==
    /\ req[r].op = "createPost" /\ req[r].pc = "insert"
    /\ LET row == [id |-> req[r].loc.path, user_id |-> req[r].cur,
                   image_url |-> PublicUrl(req[r].loc.path),
                   caption |-> req[r].loc.caption, created_at |-> now,
                   updated_at |-> now]
       IN /\ posts' = IF ok THEN posts \cup {row} ELSE posts
          /\ req' = Put(r, IF ok THEN Answer(req[r], 200, <<row.id>>)
                           ELSE [req[r] EXCEPT !.pc = "cleanup",
                                               !.loc.err = {"insert"}])
    /\ UNCHANGED <<feed, users, likes, comments, follows, blobs, now, nextPost,
                   nextComment>>

\* CreatePostCleanup without the removal
CreatePostCleanupSkipped(r, ok) ==
    /\ req[r].op = "createPost" /\ req[r].pc = "cleanup"
    /\ req' = Put(r, Answer(req[r], 500, <<>>))
    /\ UNCHANGED <<feed, store, now, nextPost, nextComment>>

\* storage.from(bucket).remove([filePath]) after the insert failed; the
\* failures of the request are kept in loc.err
CreatePostCleanup(r, ok) ==
    /\ req[r].op = "createPost" /\ req[r].pc = "cleanup"
    /\ blobs' = IF ok THEN blobs \ {req[r].loc.path} ELSE blobs
    /\ req' = Put(r, Answer([req[r] EXCEPT !.loc.err =
                                IF ok THEN @ ELSE @ \cup {"remove"}],
                            500, <<>>))
    /\ UNCHANGED <<feed, users, posts, likes, comments, follows, now, nextPost,
                   nextComment>>

\* ------------------------------------------------------------------------
\* PUT /api/posts/[postId]
\* ------------------------------------------------------------------------
\* NotPostOwner that lets everybody through
NotPostOwnerNever(post, cur) == FALSE

\* post.user_id !== currentUser.id
NotPostOwner(post, cur) == post.user_id # cur

\* The caption validation: a string caption longer than 2200 after trimming.
CaptionTooLong(caption) ==
    /\ caption # Undefined
    /\ caption # Null
    /\ Length(Trim(caption)) > MaxCaption

\* UpdateCaption without the branch for the empty string
UpdateCaptionTrimOnly(caption) == Trim(caption)

\* updateData.caption = caption === "" ? null : caption.trim()
UpdateCaption(caption) == IF caption = EmptyText THEN Null ELSE Trim(caption)

\* json: whether request.json() parses the body; when it throws, the catch
\* of the handler answers 500.
EditPostStart(r, caller, postId, json, caption) ==
    /\ req[r].pc = "idle"
    /\ LET e == Enter(r, "editPost", caller, postId,
                      [NoInp EXCEPT !.text = caption, !.json = json])
           me == (CHOOSE u \in UserByClerk(caller) : TRUE).id
           post == CHOOSE p \in PostById(postId) : TRUE
       IN
       req' = Put(r,
          IF caller = NoCaller THEN Answer(e, 401, <<>>)
          ELSE IF ~json THEN Answer(e, 500, <<>>)
          ELSE IF CaptionTooLong(caption) THEN Answer(e, 400, <<>>)
          ELSE IF UserByClerk(caller) = {} THEN Answer(e, 404, <<>>)
          ELSE IF PostById(postId) = {} THEN Answer(e, 404, <<>>)
          ELSE IF NotPostOwner(post, me) THEN Answer(e, 403, <<>>)
          ELSE IF caption = Null THEN Answer(e, 500, <<>>)
          ELSE [e EXCEPT !.pc = "update", !.cur = me,
                         !.loc = [caption |-> caption]])
    /\ UNCHANGED <<feed, store, now, nextPost, nextComment>>

\* posts.update(updateData).eq("id", postId).eq("user_id", cur).select().single()
EditPostUpdate(r) ==
    /\ req[r].op = "editPost" /\ req[r].pc = "update"
    /\ LET hit == {p \in PostById(req[r].arg) : p.user_id = req[r].cur}
           new(p) == IF req[r].loc.caption = Undefined
                     THEN [p EXCEPT !.updated_at = now]
                     ELSE [p EXCEPT !.updated_at = now,
                                    !.caption = UpdateCaption(req[r].loc.caption)]
       IN /\ posts' = (posts \ hit) \cup {new(p) : p \in hit}
          /\ req' = Put(r, IF hit = {} THEN Answer(req[r], 500, <<>>)
                           ELSE Answer(req[r], 200, <<>>))
    /\ UNCHANGED <<feed, users, likes, comments, follows, blobs, now, nextPost,
                   nextComment>>

\* ------------------------------------------------------------------------
\* DELETE /api/posts/[postId]
\* ------------------------------------------------------------------------
DeletePostStart(r, caller, postId, clientOk) ==
    /\ req[r].pc = "idle"
    /\ LET e == Enter(r, "deletePost", caller, postId, NoInp)
           me == (CHOOSE u \in UserByClerk(caller) : TRUE).id
           post == CHOOSE p \in PostById(postId) : TRUE
           filePath == PathOfUrl(post.image_url)
       IN
       req' = Put(r,
          IF caller = NoCaller THEN Answer(e, 401, <<>>)
          ELSE IF UserByClerk(caller) = {} THEN Answer(e, 404, <<>>)
          ELSE IF PostById(postId) = {} THEN Answer(e, 404, <<>>)
          ELSE IF NotPostOwner(post, me) THEN Answer(e, 403, <<>>)
          ELSE IF filePath = Missing
               THEN [e EXCEPT !.pc = "delete", !.cur = me]
          ELSE IF ~clientOk THEN Answer(e, 500, <<>>)
          ELSE [e EXCEPT !.pc = "remove", !.cur = me,
                         !.loc = [path |-> filePath]])
    /\ UNCHANGED <<feed, store, now, nextPost, nextComment>>

\* storage.from(bucket).remove([filePath]); a failure is only logged
DeletePostRemove(r, ok) ==
    /\ req[r].op = "deletePost" /\ req[r].pc = "remove"
    /\ blobs' = IF ok THEN blobs \ {req[r].loc.path} ELSE blobs
    /\ req' = Put(r, [req[r] EXCEPT !.pc = "delete"])
    /\ UNCHANGED <<feed, users, posts, likes, comments, follows, now, nextPost,
                   nextComment>>

\* ON DELETE CASCADE of likes.post_id and comments.post_id: the rows that are
\* left of a relation once the posts ids are deleted.
Cascade(rows, ids) == {x \in rows : x.post_id \notin ids}

\* DeletePostDelete answering 200 without deleting the row
DeletePostDeleteNothing(r, ok) ==
    /\ req[r].op = "deletePost" /\ req[r].pc = "delete"
    /\ req' = Put(r, Answer(req[r], IF ok THEN 200 ELSE 500, <<>>))
    /\ UNCHANGED <<feed, store, now, nextPost, nextComment>>

\* DeletePostDelete answering 404 when the delete fails
DeletePostDeleteNotFound(r, ok) ==
    /\ req[r].op = "deletePost" /\ req[r].pc = "delete"
    /\ LET hit == {p \in PostById(req[r].arg) : p.user_id = req[r].cur}
           ids == {p.id : p \in hit}
       IN /\ posts' = IF ok THEN posts \ hit ELSE posts
          /\ likes' = IF ok THEN Cascade(likes, ids) ELSE likes
          /\ comments' = IF ok THEN Cascade(comments, ids) ELSE comments
          /\ req' = Put(r, Answer(req[r], IF ok THEN 200 ELSE 404, <<>>))
    /\ UNCHANGED <<feed, users, follows, blobs, now, nextPost, nextComment>>

\* posts.delete().eq("id", postId).eq("user_id", cur); the foreign keys of
\* likes and comments cascade.
DeletePostDelete(r, ok) ==
    /\ req[r].op = "deletePost" /\ req[r].pc = "delete"
    /\ LET hit == {p \in PostById(req[r].arg) : p.user_id = req[r].cur}
           ids == {p.id : p \in hit}
       IN /\ posts' = IF ok THEN posts \ hit ELSE posts
          /\ likes' = IF ok THEN Cascade(likes, ids) ELSE likes
          /\ comments' = IF ok THEN Cascade(comments, ids) ELSE comments
          /\ req' = Put(r, Answer(req[r], IF ok THEN 200 ELSE 500, <<>>))
    /\ UNCHANGED <<feed, users, follows, blobs, now, nextPost, nextComment>>

\* ------------------------------------------------------------------------
\* POST /api/comments
\* ------------------------------------------------------------------------
\* !content || typeof content !== "string" || content.trim().length === 0
ContentBlank(content) ==
    \/ ~IsText(content)
    \/ Length(content) = 0
    \/ Length(Trim(content)) = 0

\* content.length > 2200
ContentTooLong(content) == Length(content) > MaxCaption

CreateCommentStart(r, caller, postId, content) ==
    /\ req[r].pc = "idle"
    /\ nextComment <= MaxComments
    /\ LET e == Enter(r, "createComment", caller, postId,
                      [NoInp EXCEPT !.text = content]) IN
       req' = Put(r,
          IF caller = NoCaller THEN Answer(e, 401, <<>>)
          ELSE IF postId = Missing THEN Answer(e, 400, <<>>)
          ELSE IF ContentBlank(content) THEN Answer(e, 400, <<>>)
          ELSE IF ContentTooLong(content) THEN Answer(e, 400, <<>>)
          ELSE IF UserByClerk(caller) = {} THEN Answer(e, 404, <<>>)
          ELSE IF PostById(postId) = {} THEN Answer(e, 404, <<>>)
          ELSE [e EXCEPT !.pc = "insert",
                         !.cur = (CHOOSE u \in UserByClerk(caller) : TRUE).id,
                         !.loc = [content |-> content]])
    /\ UNCHANGED <<feed, store, now, nextPost, nextComment>>

\* comments.insert({post_id, user_id, content: content.trim()})
CreateCommentInsert(r) ==
    /\ req[r].op = "createComment" /\ req[r].pc = "insert"
    /\ LET ok == PostById(req[r].arg) # {}
           row == [id |-> nextComment, post_id |-> req[r].arg,
                   user_id |-> req[r].cur, content |-> Trim(req[r].loc.content),
                   created_at |-> now]
       IN /\ comments' = IF ok THEN comments \cup {row} ELSE comments
          /\ nextComment' = IF ok THEN nextComment + 1 ELSE nextComment
          /\ req' = Put(r, IF ok THEN Answer(req[r], 200, <<row.id>>)
                           ELSE Answer(req[r], 500, <<>>))
    /\ UNCHANGED <<feed, users, posts, likes, follows, blobs, now, nextPost>>

\* ------------------------------------------------------------------------
\* DELETE /api/comments/[commentId]
\* ------------------------------------------------------------------------
\* comment.user_id !== currentUser.id
NotCommentAuthor(comment, cur) == comment.user_id # cur

DeleteCommentStart(r, caller, commentId) ==
    /\ req[r].pc = "idle"
    /\ LET e == Enter(r, "deleteComment", caller, commentId, NoInp)
           me == (CHOOSE u \in UserByClerk(caller) : TRUE).id
           comment == CHOOSE c \in CommentById(commentId) : TRUE
       IN
       req' = Put(r,
          IF caller = NoCaller THEN Answer(e, 401, <<>>)
          ELSE IF UserByClerk(caller) = {} THEN Answer(e, 404, <<>>)
          ELSE IF CommentById(commentId) = {} THEN Answer(e, 404, <<>>)
          ELSE IF NotCommentAuthor(comment, me) THEN Answer(e, 403, <<>>)
          ELSE [e EXCEPT !.pc = "delete", !.cur = me])
    /\ UNCHANGED <<feed, store, now, nextPost, nextComment>>

\* comments.delete().eq("id", commentId)
DeleteCommentDelete(r) ==
    /\ req[r].op = "deleteComment" /\ req[r].pc = "delete"
    /\ comments' = comments \ CommentById(req[r].arg)
    /\ req' = Put(r, Answer(req[r], 200, <<>>))
    /\ UNCHANGED <<feed, users, posts, likes, follows, blobs, now, nextPost,
                   nextComment>>

\* The store clock: now() of a later statement is never earlier.
Tick ==
    /\ now < MaxTime
    /\ now' = now + 1
    /\ UNCHANGED <<feed, store, nextPost, nextComment, req>>

\* ------------------------------------------------------------------------
\* Queries of the read path
\* ------------------------------------------------------------------------
Min(a, b) == IF a < b THEN a ELSE b

\* The answers .order("created_at", {ascending: false}) may give for the rows
\* S: every arrangement of S in which created_at never increases.  Rows with
\* equal created_at come in whatever order the store produces.
DescOrders(S) ==
    {f \in [1..Cardinality(S) -> S] :
        /\ \A i, j \in 1..Cardinality(S) : i # j => f[i] # f[j]
        /\ \A i, j \in 1..Cardinality(S) :
              i < j => f[i].created_at >= f[j].created_at}

\* AscOrders with {ascending: false}
AscOrdersDescending(S) == DescOrders(S)

\* .order("created_at", {ascending: true})
AscOrders(S) ==
    {f \in [1..Cardinality(S) -> S] :
        /\ \A i, j \in 1..Cardinality(S) : i # j => f[i] # f[j]
        /\ \A i, j \in 1..Cardinality(S) :
              i < j => f[i].created_at <= f[j].created_at}

\* Range taking `to` as exclusive
RangeExclusive(ord, from, to) == SubSeq(ord, from + 1, Min(to, Len(ord)))

\* .range(from, to) of an ordered answer (0-based, inclusive)
Range(ord, from, to) == SubSeq(ord, from + 1, Min(to + 1, Len(ord)))

\* .filter(pred) and .slice(0, n) of an array
Slice(seq, n) == SubSeq(seq, 1, Min(n, Len(seq)))
SeqSet(seq) == {seq[i] : i \in 1..Len(seq)}

\* The rows of the view post_stats for the posts ids.
PostStats(ids) ==
    {[post_id |-> p.id,
      likes_count |-> Cardinality({l \in likes : l.post_id = p.id}),
      comments_count |-> Cardinality({c \in comments : c.post_id = p.id})] :
        p \in {x \in posts : x.id \in ids}}

\* posts filtered by .eq("user_id", uid) when a filter is given
PostsMatching(uid) ==
    IF uid = Missing THEN posts ELSE {p \in posts : p.user_id = uid}

\* ------------------------------------------------------------------------
\* GET /api/posts
\* ------------------------------------------------------------------------
\* offset = (page - 1) * limit
Offset(page, limit) == (page - 1) * limit

\* StatOf taking the first row of stats whatever its post_id
StatOfFirst(stats, pid, field) ==
    IF stats = {} THEN 0 ELSE (CHOOSE s \in stats : TRUE)[field]

\* likes_count / comments_count of stats?.find(stat.post_id === post.id) || 0.
\* The data of a query that failed is null, which every use below treats as
\* the empty answer; the failed queries are kept in loc.err.
StatOf(stats, pid, field) ==
    IF {s \in stats : s.post_id = pid} = {} THEN 0
    ELSE (CHOOSE s \in stats : s.post_id = pid)[field]

\* PreviewOf without the filter on post_id
PreviewOfAnyPost(recent, pid) == Slice(recent, PreviewSize)

\* recentComments.filter(comment.post_id === post.id).slice(0, 2)
PreviewOf(recent, pid) ==
    Slice(SelectSeq(recent, LAMBDA c : c.post_id = pid), PreviewSize)

\* IsLikedIn answering whether anybody likes the post
IsLikedByAnyone(userLikes, pid) == \E l \in likes : l.post_id = pid

\* userLikes.includes(post.id)
IsLikedIn(userLikes, pid) == pid \in userLikes

\* One element of postsWithStats.
Enrich(post, stats, userLikes, recent) ==
    [id |-> post.id, userId |-> post.user_id, createdAt |-> post.created_at,
     likesCount |-> StatOf(stats, post.id, "likes_count"),
     commentsCount |-> StatOf(stats, post.id, "comments_count"),
     isLiked |-> IsLikedIn(userLikes, post.id),
     recentComments |-> PreviewOf(recent, post.id)]

\* HasMore that is true for every page that is not empty
HasMoreNonEmpty(n, limit) == n >= 1

\* hasMore: postsWithStats.length === limit
HasMore(n, limit) == n = limit

\* A query parameter is absent or a decimal numeral, written as its number.
Absent == -1
DefaultPage == 1
DefaultLimit == 10

\* parseInt(searchParams.get(name) || fallback, 10)
ParseParam(raw, fallback) == IF raw = Absent THEN fallback ELSE raw

GetPostsStart(r, caller, rawPage, rawLimit, filterUserId, ok) ==
    /\ req[r].pc = "idle"
    /\ LET e == Enter(r, "getPosts", caller, filterUserId,
                      [NoInp EXCEPT !.page = rawPage, !.limit = rawLimit])
           page == ParseParam(rawPage, DefaultPage)
           limit == ParseParam(rawLimit, DefaultLimit)
           target == UserByClerk(filterUserId)
           uid == IF filterUserId = Missing THEN Missing
                  ELSE (CHOOSE u \in target : TRUE).id
           base == [page |-> page, limit |-> limit, rows |-> <<>>,
                    stats |-> {}, userLikes |-> {}, err |-> {}]
       IN
       IF filterUserId # Missing /\ target = {}
       THEN req' = Put(r, Answer([e EXCEPT !.q = {"users"}, !.loc = base], 200,
                          [posts |-> <<>>, total |-> 0, hasMore |-> FALSE]))
       ELSE IF ~ok
       THEN req' = Put(r, Answer([e EXCEPT !.q = {"posts"},
                                           !.loc = [base EXCEPT !.err = {"posts"}]],
                                 500, <<>>))
       ELSE \E ord \in DescOrders(PostsMatching(uid)) :
               req' = Put(r, [e EXCEPT
                   !.pc = "stats",
                   !.q = IF filterUserId = Missing THEN {"posts"}
                         ELSE {"users", "posts"},
                   !.loc = [base EXCEPT !.rows =
                      Range(ord, Offset(page, limit),
                            Offset(page, limit) + limit - 1)]])
    /\ UNCHANGED <<feed, store, now, nextPost, nextComment>>

PageIds(r) == {req[r].loc.rows[i].id : i \in 1..Len(req[r].loc.rows)}

\* the viewer's likes are looked up for a verified caller and a non-empty page
WantsLikes(caller, postIds) == caller # NoCaller /\ postIds # {}

\* GetPostsStats failing the request when the query fails
GetPostsStatsStrict(r, ok) ==
    /\ req[r].op = "getPosts" /\ req[r].pc = "stats"
    /\ req' = Put(r,
          IF ~ok THEN Answer([req[r] EXCEPT !.q = @ \cup {"post_stats"},
                                            !.loc.err = @ \cup {"stats"}],
                             500, <<>>)
          ELSE [req[r] EXCEPT
                  !.pc = IF WantsLikes(req[r].caller, PageIds(r)) THEN "likes"
                         ELSE "comments",
                  !.q = @ \cup {"post_stats"},
                  !.loc.stats = PostStats(PageIds(r))])
    /\ UNCHANGED <<feed, store, now, nextPost, nextComment>>

\* post_stats.select(...).in("post_id", postIds)
GetPostsStats(r, ok) ==
    /\ req[r].op = "getPosts" /\ req[r].pc = "stats"
    /\ req' = Put(r, [req[r] EXCEPT
          !.pc = IF WantsLikes(req[r].caller, PageIds(r)) THEN "likes"
                 ELSE "comments",
          !.q = @ \cup {"post_stats"},
          !.loc.stats = IF ok THEN PostStats(PageIds(r)) ELSE {},
          !.loc.err = IF ok THEN @ ELSE @ \cup {"stats"}])
    /\ UNCHANGED <<feed, store, now, nextPost, nextComment>>

\* ViewerLikes without the filter on user_id
ViewerLikesAnyUser(uid, ids) ==
    {l.post_id : l \in {x \in likes : x.post_id \in ids}}

\* likes.select("post_id").eq("user_id", currentUser.id).in("post_id", postIds)
ViewerLikes(uid, ids) ==
    {l.post_id : l \in {x \in likes : x.user_id = uid /\ x.post_id \in ids}}

GetPostsLikes(r, ok) ==
    /\ req[r].op = "getPosts" /\ req[r].pc = "likes"
    /\ LET me == UserByClerk(req[r].caller) IN
       req' = Put(r,
          IF me = {} THEN [req[r] EXCEPT !.pc = "comments", !.q = @ \cup {"users"}]
          ELSE [req[r] EXCEPT
                  !.pc = "comments",
                  !.q = @ \cup {"users", "likes"},
                  !.loc.userLikes =
                      IF ok THEN ViewerLikes((CHOOSE u \in me : TRUE).id, PageIds(r))
                      ELSE {},
                  !.loc.err = IF ok THEN @ ELSE @ \cup {"likes"}])
    /\ UNCHANGED <<feed, store, now, nextPost, nextComment>>

\* comments.select(...).in("post_id", postIds).order("created_at", desc)
CommentsOfPosts(ids) == {c \in comments : c.post_id \in ids}

GetPostsComments(r, ok) ==
    /\ req[r].op = "getPosts" /\ req[r].pc = "comments"
    /\ \E ord \in DescOrders(CommentsOfPosts(PageIds(r))) :
         LET recent == IF ok THEN ord ELSE <<>>
             rows == req[r].loc.rows
             out == [i \in 1..Len(rows) |->
                        Enrich(rows[i], req[r].loc.stats, req[r].loc.userLikes,
                               recent)]
         IN req' = Put(r, Answer(
               [req[r] EXCEPT !.q = @ \cup {"comments"},
                              !.loc.err = IF ok THEN @ ELSE @ \cup {"comments"}],
               200,
               [posts |-> out, total |-> Len(out),
                hasMore |-> HasMore(Len(out), req[r].loc.limit)]))
    /\ UNCHANGED <<feed, store, now, nextPost, nextComment>>

\* ------------------------------------------------------------------------
\* GET /api/posts/[postId]
\* ------------------------------------------------------------------------
GetPostStart(r, caller, postId) ==
    /\ req[r].pc = "idle"
    /\ LET e == Enter(r, "getPost", caller, postId, NoInp)
           found == PostById(postId)
       IN
       req' = Put(r,
          IF found = {} THEN Answer([e EXCEPT !.q = {"posts"}], 404, <<>>)
          ELSE [e EXCEPT !.pc = "stats", !.q = {"posts"},
                  !.loc = [rows |-> <<CHOOSE p \in found : TRUE>>,
                           stats |-> {}, userLikes |-> {}, err |-> {}]])
    /\ UNCHANGED <<feed, store, now, nextPost, nextComment>>

\* post_stats.select(...).eq("post_id", postId).single()
GetPostStats(r, ok) ==
    /\ req[r].op = "getPost" /\ req[r].pc = "stats"
    /\ req' = Put(r, [req[r] EXCEPT
          !.pc = IF req[r].caller # NoCaller THEN "likes" ELSE "comments",
          !.q = @ \cup {"post_stats"},
          !.loc.stats = IF ok THEN PostStats({req[r].arg}) ELSE {},
          !.loc.err = IF ok THEN @ ELSE @ \cup {"stats"}])
    /\ UNCHANGED <<feed, store, now, nextPost, nextComment>>

\* likes.select("id").eq("post_id", postId).eq("user_id", cur).single():
\* isLiked = !!like, and single() gives no row unless exactly one matches
SingleLike(pid, uid) ==
    IF Cardinality(LikesOf(pid, uid)) = 1 THEN {pid} ELSE {}

GetPostLikes(r, ok) ==
    /\ req[r].op = "getPost" /\ req[r].pc = "likes"
    /\ LET me == UserByClerk(req[r].caller) IN
       req' = Put(r,
          IF me = {} THEN [req[r] EXCEPT !.pc = "comments", !.q = @ \cup {"users"}]
          ELSE [req[r] EXCEPT
                  !.pc = "comments",
                  !.q = @ \cup {"users", "likes"},
                  !.loc.userLikes =
                      IF ok THEN SingleLike(req[r].arg, (CHOOSE u \in me : TRUE).id)
                      ELSE {},
                  !.loc.err = IF ok THEN @ ELSE @ \cup {"likes"}])
    /\ UNCHANGED <<feed, store, now, nextPost, nextComment>>

\* The detail view carries every comment of the answer, in its order.
DetailOf(post, stats, userLikes, all) ==
    [id |-> post.id, userId |-> post.user_id, createdAt |-> post.created_at,
     likesCount |-> StatOf(stats, post.id, "likes_count"),
     commentsCount |-> StatOf(stats, post.id, "comments_count"),
     isLiked |-> IsLikedIn(userLikes, post.id),
     recentComments |-> all]

\* comments.select(...).eq("post_id", postId).order("created_at", asc)
GetPostComments(r, ok) ==
    /\ req[r].op = "getPost" /\ req[r].pc = "comments"
    /\ \E ord \in AscOrders(CommentsOfPosts({req[r].arg})) :
         LET all == IF ok THEN ord ELSE <<>> IN
         req' = Put(r, Answer(
               [req[r] EXCEPT !.q = @ \cup {"comments"},
                              !.loc.err = IF ok THEN @ ELSE @ \cup {"comments"}],
               200,
               DetailOf(req[r].loc.rows[1], req[r].loc.stats,
                        req[r].loc.userLikes, all)))
    /\ UNCHANGED <<feed, store, now, nextPost, nextComment>>

\* ------------------------------------------------------------------------
\* /profile/[userId] and its PostGrid
\* ------------------------------------------------------------------------
\* The UUID test of the route parameter: users.id values are UUIDs, the
\* subjects of the auth provider are not.
IsUUID(userId) == userId \in AccountIds

\* users ... .eq("id", userId) or .eq("clerk_id", userId) ... .single()
ProfileUser(userId) ==
    IF IsUUID(userId) THEN UserById(userId) ELSE UserByClerk(userId)

GridLimit == 100

\* UserProfilePage renders <PostGrid userId={profileData.user.id} />, whose
\* effect fetches /api/posts?userId=${userId}&limit=100; a parameter that no
\* users row has ends in notFound().
PostGridFetch(r, caller, userId, ok) ==
    /\ ProfileUser(userId) # {}
    /\ GetPostsStart(r, caller, Absent, GridLimit,
                     (CHOOSE u \in ProfileUser(userId) : TRUE).id, ok)

\* ------------------------------------------------------------------------
\* PostFeed: the state of the component (posts, page, hasMore, loading,
\* loadingMore, error) and its calls of fetchPosts that have not returned.
\* A call waits on the connection of slot r: fetches[r] is its (pageNum,
\* append), and the request reaches the handler in a later step.
\* ------------------------------------------------------------------------
\* limit=10 in the request of fetchPosts, scaled to the number of posts
FeedLimit == 1
MaxFeedPage == 3

NoFetch == [page |-> 0, append |-> FALSE]

\* useState initial values; the effect that calls refreshFeed has not run
NoFeed ==
    [mounted |-> FALSE, posts |-> <<>>, page |-> 1, hasMore |-> TRUE,
     loading |-> TRUE, loadingMore |-> FALSE, error |-> FALSE,
     fetches |-> [r \in Slots |-> NoFetch]]

Fetching(r) == feed.fetches[r] # NoFetch

\* fetchPosts(pageNum, append) up to its await of fetch(), from state f
FetchPosts(f, r, pageNum, append) ==
    [f EXCEPT !.loadingMore = IF append THEN TRUE ELSE @,
              !.loading = IF append THEN @ ELSE TRUE,
              !.error = FALSE,
              !.fetches[r] = [page |-> pageNum, append |-> append]]

\* refreshFeed: by the effect on mount, or by the callback CreatePostModal
\* calls after its POST /api/posts was answered with success (slot r).
RefreshFeed(r) ==
    /\ req[r].pc = "idle" /\ ~Fetching(r)
    /\ \/ ~feed.mounted
       \/ req[r].op = "createPost" /\ req[r].status = 200
    /\ feed' = FetchPosts([feed EXCEPT !.mounted = TRUE, !.page = 1,
                                       !.hasMore = TRUE], r, 1, FALSE)
    /\ req' = [req EXCEPT ![r] = NoReq]
    /\ UNCHANGED <<store, now, nextPost, nextComment>>

\* The observer target is rendered when the list is shown and hasMore.
TargetShown ==
    /\ ~feed.loading /\ ~feed.error /\ feed.posts # <<>> /\ feed.hasMore

\* The IntersectionObserver callback:
\* isIntersecting && hasMore && !loading && !loadingMore
FeedLoadMore(r) ==
    /\ req[r].pc = "idle" /\ ~Fetching(r)
    /\ feed.mounted /\ TargetShown
    /\ feed.hasMore /\ ~feed.loading /\ ~feed.loadingMore
    /\ feed.page < MaxFeedPage
    /\ feed' = FetchPosts([feed EXCEPT !.page = feed.page + 1], r,
                          feed.page + 1, TRUE)
    /\ req' = [req EXCEPT ![r] = NoReq]
    /\ UNCHANGED <<store, now, nextPost, nextComment>>

\* fetch(`/api/posts?page=${pageNum}&limit=10`) reaches the handler
FeedRequest(r) ==
    /\ Fetching(r) /\ req[r].op = "none"
    /\ GetPostsStart(r, NoCaller, feed.fetches[r].page, FeedLimit, Missing, TRUE)

\* fetchPosts after its await: the answer is appended or replaces the list
FeedReceive(r) ==
    /\ Fetching(r) /\ Done(r) /\ req[r].op = "getPosts"
    /\ LET f == feed.fetches[r]
           ok == req[r].status = 200
       IN feed' = [feed EXCEPT
             !.posts = IF ~ok THEN @
                       ELSE IF f.append THEN @ \o req[r].body.posts
                       ELSE req[r].body.posts,
             !.hasMore = IF ok THEN req[r].body.hasMore ELSE @,
             !.error = ~ok,
             !.loading = FALSE,
             !.loadingMore = FALSE,
             !.fetches[r] = NoFetch]
    /\ UNCHANGED <<store, now, nextPost, nextComment, req>>

\* ------------------------------------------------------------------------
\* Initial state: the users the auth provider has synced, nothing else.
\* ------------------------------------------------------------------------
UserRow(k) == [id |-> Uid(k), clerk_id |-> k]

Init ==
    /\ users = {UserRow(k) : k \in Clerks \ {Unsynced}}
    /\ posts = {}
    /\ likes = {}
    /\ comments = {}
    /\ follows = {}
    /\ blobs = {}
    /\ now = 1
    /\ nextPost = 1
    /\ nextComment = 1
    /\ req = [r \in Slots |-> NoReq]
    /\ feed = NoFeed

\* ------------------------------------------------------------------------
\* Inputs
\* ------------------------------------------------------------------------
Synced == Clerks \ {Unsynced}       \* the subjects that have a users row
Author == CHOOSE k \in Synced : \A j \in Synced : k <= j
Pages == 1..MaxPage
Limits == 1..MaxLimit
Filters == {Missing} \cup Clerks
Comment1 == Txt(1, 1, 0)            \* " x": one character after a blank
Contents == {Undefined, Txt(1, 0, 0), Comment1, Txt(0, MaxCaption, 0),
             Txt(1, MaxCaption, 0), Txt(0, MaxCaption + 1, 0)}
Captions == {Undefined, Null, EmptyText, Txt(1, 0, 0), Txt(0, 1, 0),
             Txt(1, MaxCaption, 0), Txt(0, MaxCaption + 1, 0)}

\* ------------------------------------------------------------------------
\* Spec: one request at a time; posts of one author, likes, comments, and
\* the two read handlers.
\* ------------------------------------------------------------------------
Next ==
    \E r \in {1} :
        \/ CreatePostStart(r, Author, "image", Null, TRUE)
        \/ CreatePostUpload(r, TRUE)
        \/ CreatePostInsert(r, TRUE)
        \/ \E c \in Synced, p \in PostIds : LikeStart(r, c, p)
        \/ LikeInsert(r)
        \/ \E c \in Synced, p \in PostIds : UnlikeStart(r, c, p)
        \/ UnlikeDelete(r)
        \/ \E p \in PostIds : CreateCommentStart(r, Author, p, Comment1)
        \/ CreateCommentInsert(r)
        \/ \E k \in CommentIds : DeleteCommentStart(r, Author, k)
        \/ DeleteCommentDelete(r)
        \/ \E p \in PostIds : DeletePostStart(r, Author, p, TRUE)
        \/ DeletePostRemove(r, TRUE)
        \/ DeletePostDelete(r, TRUE)
        \/ \E c \in Callers, l \in Limits, ok \in BOOLEAN :
              GetPostsStart(r, c, 1, l, Missing, ok)
        \/ \E ok \in BOOLEAN : GetPostsStats(r, ok)
        \/ GetPostsLikes(r, TRUE)
        \/ GetPostsComments(r, TRUE)
        \/ \E c \in Callers, p \in PostIds : GetPostStart(r, c, p)
        \/ \E ok \in BOOLEAN : GetPostStats(r, ok)
        \/ GetPostLikes(r, TRUE)
        \/ GetPostComments(r, TRUE)

Spec == Init /\ [][Next]_vars

\* ------------------------------------------------------------------------
\* SpecComments: one request at a time; comments created at equal and at
\* different times on the posts of one author, and the two read handlers.
\* ------------------------------------------------------------------------
NextComments ==
    \/ Tick
    \/ \E r \in {1} :
        \/ CreatePostStart(r, Author, "image", Null, TRUE)
        \/ CreatePostUpload(r, TRUE)
        \/ CreatePostInsert(r, TRUE)
        \/ \E p \in PostIds : CreateCommentStart(r, Author, p, Comment1)
        \/ CreateCommentInsert(r)
        \/ \E k \in CommentIds : DeleteCommentStart(r, Author, k)
        \/ DeleteCommentDelete(r)
        \/ GetPostsStart(r, NoCaller, 1, MaxLimit, Missing, TRUE)
        \/ GetPostsStats(r, TRUE)
        \/ GetPostsComments(r, TRUE)
        \/ \E p \in PostIds : GetPostStart(r, NoCaller, p)
        \/ GetPostStats(r, TRUE)
        \/ GetPostComments(r, TRUE)

SpecComments == Init /\ [][NextComments]_vars

\* ------------------------------------------------------------------------
\* SpecPages: posts are created, at equal and at different times; from the
\* first GET /api/posts on the store stays as it is, and the two slots hold
\* the answers to two page requests.
\* ------------------------------------------------------------------------
NoGet == \A r \in Slots : req[r].op # "getPosts"
NoWrite == \A r \in Slots : ~(InFlight(r) /\ req[r].op # "getPosts")

NextPages ==
    \/ Tick
    \/ \E c \in Synced : NoGet /\ CreatePostStart(1, c, "image", Null, TRUE)
    \/ CreatePostUpload(1, TRUE)
    \/ CreatePostInsert(1, TRUE)
    \/ \E r \in Slots :
        \/ \E pg \in Pages, l \in Limits, f \in Filters :
              NoWrite /\ GetPostsStart(r, NoCaller, pg, l, f, TRUE)
        \/ GetPostsStats(r, TRUE)
        \/ GetPostsComments(r, TRUE)

SpecPages == Init /\ [][NextPages]_vars

\* ------------------------------------------------------------------------
\* SpecRace: two requests at a time; one post, and like and unlike requests
\* of the synced accounts in both slots.
\* ------------------------------------------------------------------------
NextRace ==
    \/ nextPost = 1 /\ CreatePostStart(1, Author, "image", Null, TRUE)
    \/ CreatePostUpload(1, TRUE)
    \/ CreatePostInsert(1, TRUE)
    \/ \E r \in Slots :
        \/ \E c \in Synced : LikeStart(r, c, 1)
        \/ LikeInsert(r)
        \/ \E c \in Synced : UnlikeStart(r, c, 1)
        \/ UnlikeDelete(r)

SpecRace == Init /\ [][NextRace]_vars

\* ------------------------------------------------------------------------
\* SpecOwner: one request at a time; posts and comments of the synced
\* accounts, edited and deleted by every caller.
\* ------------------------------------------------------------------------
OwnerCaptions == {Undefined, Txt(0, 1, 0), Txt(0, MaxCaption + 1, 0)}

NextOwner ==
    \E r \in {1} :
        \/ \E c \in Synced : CreatePostStart(r, c, "image", Null, TRUE)
        \/ CreatePostUpload(r, TRUE)
        \/ CreatePostInsert(r, TRUE)
        \/ LikeStart(r, Author, 1)
        \/ LikeInsert(r)
        \/ \E c \in Synced : CreateCommentStart(r, c, 1, Comment1)
        \/ CreateCommentInsert(r)
        \/ \E c \in Callers, k \in CommentIds : DeleteCommentStart(r, c, k)
        \/ DeleteCommentDelete(r)
        \/ \E c \in Callers, p \in PostIds, t \in OwnerCaptions :
              EditPostStart(r, c, p, TRUE, t)
        \/ \E c \in Callers, p \in PostIds :
              EditPostStart(r, c, p, FALSE, Undefined)
        \/ EditPostUpdate(r)
        \/ \E c \in Callers, p \in PostIds : DeletePostStart(r, c, p, TRUE)
        \/ DeletePostRemove(r, TRUE)
        \/ DeletePostDelete(r, TRUE)

SpecOwner == Init /\ [][NextOwner]_vars

\* ------------------------------------------------------------------------
\* SpecFollows: two requests at a time; follow and unfollow requests of
\* every caller for every account id.
\* ------------------------------------------------------------------------
FollowArgs == {Missing} \cup AccountIds

NextFollows ==
    \E r \in Slots :
        \/ \E c \in Callers, a \in FollowArgs : FollowStart(r, c, a)
        \/ FollowInsert(r)
        \/ \E c \in Callers, a \in FollowArgs : UnfollowStart(r, c, a)
        \/ UnfollowDelete(r)

SpecFollows == Init /\ [][NextFollows]_vars

\* ------------------------------------------------------------------------
\* SpecCaptions: one request at a time; posts of one author created and
\* edited with every kind of caption, by the author and by another account.
\* ------------------------------------------------------------------------
NextCaptions ==
    \/ Tick
    \/ \E t \in Captions : CreatePostStart(1, Author, "image", t, TRUE)
    \/ CreatePostUpload(1, TRUE)
    \/ CreatePostInsert(1, TRUE)
    \/ \E c \in Synced, p \in PostIds, t \in Captions :
          EditPostStart(1, c, p, TRUE, t)
    \/ EditPostUpdate(1)

SpecCaptions == Init /\ [][NextCaptions]_vars

\* ------------------------------------------------------------------------
\* SpecDelete: two requests at a time; posts of one author, a comment, likes,
\* deletions with every storage outcome in both slots, and reads.
\* ------------------------------------------------------------------------
NextDelete ==
    \/ CreatePostStart(1, Author, "image", Null, TRUE)
    \/ CreatePostUpload(1, TRUE)
    \/ CreatePostInsert(1, TRUE)
    \/ \E p \in PostIds : nextComment = 1 /\ CreateCommentStart(1, Author, p, Comment1)
    \/ CreateCommentInsert(1)
    \/ \E p \in PostIds : LikeStart(2, Author, p)
    \/ LikeInsert(2)
    \/ \E p \in PostIds : GetPostStart(2, NoCaller, p)
    \/ GetPostStats(2, TRUE)
    \/ GetPostComments(2, TRUE)
    \/ GetPostsStart(2, NoCaller, 1, MaxLimit, Missing, TRUE)
    \/ GetPostsStats(2, TRUE)
    \/ GetPostsComments(2, TRUE)
    \/ \E r \in Slots :
        \/ \E p \in PostIds, ok \in BOOLEAN : DeletePostStart(r, Author, p, ok)
        \/ \E ok \in BOOLEAN : DeletePostRemove(r, ok)
        \/ \E ok \in BOOLEAN : DeletePostDelete(r, ok)

SpecDelete == Init /\ [][NextDelete]_vars

\* ------------------------------------------------------------------------
\* SpecCreate: two requests at a time; POST /api/posts of every caller with
\* every kind of file and every outcome of the storage client, the upload,
\* the insert and the cleanup.
\* ------------------------------------------------------------------------
NextCreate ==
    \/ Tick
    \/ \E r \in Slots :
        \/ \E c \in Callers, f \in Files, ok \in BOOLEAN :
              CreatePostStart(r, c, f, Null, ok)
        \/ \E ok \in BOOLEAN : CreatePostUpload(r, ok)
        \/ \E ok \in BOOLEAN : CreatePostInsert(r, ok)
        \/ \E ok \in BOOLEAN : CreatePostCleanup(r, ok)

SpecCreate == Init /\ [][NextCreate]_vars

\* ------------------------------------------------------------------------
\* SpecDegrade: one request at a time; posts, a like and a comment of one
\* author, and GET /api/posts of every caller with every outcome of each of
\* its queries.
\* ------------------------------------------------------------------------
NextDegrade ==
    \/ CreatePostStart(1, Author, "image", Null, TRUE)
    \/ CreatePostUpload(1, TRUE)
    \/ CreatePostInsert(1, TRUE)
    \/ \E p \in PostIds : LikeStart(1, Author, p)
    \/ LikeInsert(1)
    \/ \E p \in PostIds : nextComment = 1 /\ CreateCommentStart(1, Author, p, Comment1)
    \/ CreateCommentInsert(1)
    \/ \E c \in Callers, l \in Limits, ok \in BOOLEAN :
          GetPostsStart(1, c, 1, l, Missing, ok)
    \/ \E ok \in BOOLEAN : GetPostsStats(1, ok)
    \/ \E ok \in BOOLEAN : GetPostsLikes(1, ok)
    \/ \E ok \in BOOLEAN : GetPostsComments(1, ok)

SpecDegrade == Init /\ [][NextDegrade]_vars

\* ------------------------------------------------------------------------
\* SpecContents: one request at a time; comments with every kind of content
\* by every caller on the posts of one author.
\* ------------------------------------------------------------------------
NextContents ==
    \/ Tick
    \/ CreatePostStart(1, Author, "image", Null, TRUE)
    \/ CreatePostUpload(1, TRUE)
    \/ CreatePostInsert(1, TRUE)
    \/ \E c \in Callers, p \in {Missing} \cup PostIds, t \in Contents :
          CreateCommentStart(1, c, p, t)
    \/ CreateCommentInsert(1)

SpecContents == Init /\ [][NextContents]_vars

\* ------------------------------------------------------------------------
\* SpecUncomment: two requests at a time; comments on the posts of one
\* author, deleted by any caller from either slot.
\* ------------------------------------------------------------------------
NextUncomment ==
    \/ CreatePostStart(1, Author, "image", Null, TRUE)
    \/ CreatePostUpload(1, TRUE)
    \/ CreatePostInsert(1, TRUE)
    \/ \E c \in Synced, p \in PostIds : CreateCommentStart(1, c, p, Comment1)
    \/ CreateCommentInsert(1)
    \/ \E r \in Slots :
        \/ \E c \in Callers, k \in CommentIds : DeleteCommentStart(r, c, k)
        \/ DeleteCommentDelete(r)

SpecUncomment == Init /\ [][NextUncomment]_vars

\* ------------------------------------------------------------------------
\* SpecReject: one request at a time; every mutating handler with the
\* inputs each of its early returns rejects.  Posts are created by every
\* account; likes, one comment and follows are made by one account, and the
\* requests on them come from every caller.
\* ------------------------------------------------------------------------
RejectCaptions == {Null, Txt(0, MaxCaption + 1, 0)}
RejectContents == {Undefined, Txt(1, 0, 0), Comment1, Txt(0, MaxCaption + 1, 0)}
RejectPosts == {Missing, 1}
Makers == {NoCaller, Author, Unsynced}

NextReject ==
    \/ \E c \in Callers, f \in Files, t \in RejectCaptions :
          CreatePostStart(1, c, f, t, TRUE)
    \/ CreatePostUpload(1, TRUE)
    \/ CreatePostInsert(1, TRUE)
    \/ \E c \in Callers, p \in PostIds, t \in OwnerCaptions :
          EditPostStart(1, c, p, TRUE, t)
    \/ EditPostUpdate(1)
    \/ \E c \in Callers, p \in PostIds : DeletePostStart(1, c, p, TRUE)
    \/ DeletePostRemove(1, TRUE)
    \/ \E ok \in BOOLEAN : DeletePostDelete(1, ok)
    \/ \E c \in Makers, p \in RejectPosts : LikeStart(1, c, p)
    \/ LikeInsert(1)
    \/ \E c \in Callers, p \in RejectPosts : UnlikeStart(1, c, p)
    \/ UnlikeDelete(1)
    \/ \E c \in Makers, p \in RejectPosts, t \in RejectContents :
          nextComment = 1 /\ CreateCommentStart(1, c, p, t)
    \/ CreateCommentInsert(1)
    \/ \E c \in Callers, k \in {1, 2} : DeleteCommentStart(1, c, k)
    \/ DeleteCommentDelete(1)
    \/ \E c \in Makers, a \in FollowArgs : FollowStart(1, c, a)
    \/ FollowInsert(1)
    \/ \E c \in Callers, a \in FollowArgs : UnfollowStart(1, c, a)
    \/ UnfollowDelete(1)

SpecReject == Init /\ [][NextReject]_vars

\* ------------------------------------------------------------------------
\* SpecParams: one request at a time; posts of two accounts listed without a
\* caller, with page and limit given or absent.
\* ------------------------------------------------------------------------
RawPages == {Absent} \cup Pages
RawLimits == {Absent} \cup Limits

NextParams ==
    \/ Tick
    \/ \E c \in Synced : CreatePostStart(1, c, "image", Null, TRUE)
    \/ CreatePostUpload(1, TRUE)
    \/ CreatePostInsert(1, TRUE)
    \/ \E pg \in RawPages, l \in RawLimits, f \in Filters :
          GetPostsStart(1, NoCaller, pg, l, f, TRUE)
    \/ GetPostsStats(1, TRUE)
    \/ GetPostsComments(1, TRUE)

SpecParams == Init /\ [][NextParams]_vars

\* ------------------------------------------------------------------------
\* SpecInterleave: a GET /api/posts of the author in slot 1 whose queries all
\* succeed, while slot 2 creates posts and, on the first post, likes, unlikes,
\* makes one comment and deletes it.
\* ------------------------------------------------------------------------
NextInterleave ==
    \/ GetPostsStart(1, Author, 1, MaxLimit, Missing, TRUE)
    \/ GetPostsStats(1, TRUE)
    \/ GetPostsLikes(1, TRUE)
    \/ GetPostsComments(1, TRUE)
    \/ CreatePostStart(2, Author, "image", Null, TRUE)
    \/ CreatePostUpload(2, TRUE)
    \/ CreatePostInsert(2, TRUE)
    \/ LikeStart(2, Author, 1)
    \/ LikeInsert(2)
    \/ UnlikeStart(2, Author, 1)
    \/ UnlikeDelete(2)
    \/ nextComment = 1 /\ CreateCommentStart(2, Author, 1, Comment1)
    \/ CreateCommentInsert(2)
    \/ DeleteCommentStart(2, Author, 1)
    \/ DeleteCommentDelete(2)

SpecInterleave == Init /\ [][NextInterleave]_vars

\* ------------------------------------------------------------------------
\* SpecProfile: one request at a time; posts of two accounts, the profile
\* page of every account opened by its users.id and by its clerk_id, and
\* GET /api/posts?userId= called with a clerk_id.
\* ------------------------------------------------------------------------
ProfileParams == Clerks \cup AccountIds

NextProfile ==
    \/ Tick
    \/ \E c \in Synced : CreatePostStart(1, c, "image", Null, TRUE)
    \/ CreatePostUpload(1, TRUE)
    \/ CreatePostInsert(1, TRUE)
    \/ \E c \in Callers, u \in ProfileParams : PostGridFetch(1, c, u, TRUE)
    \/ \E c \in Callers, f \in Clerks :
          GetPostsStart(1, c, Absent, GridLimit, f, TRUE)
    \/ GetPostsStats(1, TRUE)
    \/ GetPostsLikes(1, TRUE)
    \/ GetPostsComments(1, TRUE)

SpecProfile == Init /\ [][NextProfile]_vars

\* ------------------------------------------------------------------------
\* SpecFeed: one PostFeed and the requests of its author, who creates and
\* deletes posts; two connections.
\* ------------------------------------------------------------------------
NextFeed ==
    \/ Tick
    \/ \E r \in Slots :
        \/ RefreshFeed(r)
        \/ FeedLoadMore(r)
        \/ FeedRequest(r)
        \/ GetPostsStats(r, TRUE)
        \/ GetPostsComments(r, TRUE)
        \/ FeedReceive(r)
        \/ ~Fetching(r) /\ CreatePostStart(r, Author, "image", Null, TRUE)
        \/ CreatePostUpload(r, TRUE)
        \/ CreatePostInsert(r, TRUE)
        \/ \E p \in PostIds : ~Fetching(r) /\ DeletePostStart(r, Author, p, TRUE)
        \/ DeletePostRemove(r, TRUE)
        \/ DeletePostDelete(r, TRUE)

SpecFeed == Init /\ [][NextFeed]_vars

\* ========================================================================
\* Properties
\* ========================================================================
AccountOf(k) == (CHOOSE u \in UserByClerk(k) : TRUE).id
HasAccount(k) == UserByClerk(k) # {}
LikesOfPost(pid) == {l \in likes : l.post_id = pid}
CommentsOfPost(pid) == {c \in comments : c.post_id = pid}

OneLikePerPair ==
    \A a, b \in likes :
        (a.post_id = b.post_id /\ a.user_id = b.user_id) => a = b

C2_DuplicateLike(r) ==
    ( /\ Moves(r)
      /\ req'[r].op = "like"
      /\ HasAccount(req'[r].caller)
      /\ LikesOf(req'[r].arg, AccountOf(req'[r].caller)) # {} )
    => /\ likes' = likes
       /\ req'[r].pc = "idle" => req'[r].status = 409

\* C2: every step of a POST /api/likes whose caller's account already has a
\* Like row for the post leaves the Like relation (and so every likesCount) as
\* it was, and the request is answered 409; no state has two Like rows for
\* one (post, account).
C2_LikeIdempotent ==
    []OneLikePerPair /\ [][\A r \in Slots : C2_DuplicateLike(r)]_vars

C2_Witness ==
    \E r \in Slots :
        /\ Done(r) /\ req[r].op = "like" /\ req[r].status = 409
        /\ LikesOf(req[r].arg, AccountOf(req[r].caller)) # {}

SamePair(r, s) ==
    /\ req[r].op = "like" /\ req[s].op = "like"
    /\ req[r].caller = req[s].caller
    /\ req[r].arg = req[s].arg

C3_Outcome(r, s) ==
    ( /\ Done(r) /\ Done(s) /\ SamePair(r, s)
      /\ req[r].ov /\ req[s].ov
      /\ PostById(req[r].arg) # {} )
    => /\ Cardinality(LikesOf(req[r].arg, AccountOf(req[r].caller))) = 1
       /\ {req[r].status, req[s].status} \subseteq {200, 409}
       /\ ~(req[r].status = 200 /\ req[s].status = 200)

C3_Race(r, s) ==
    ( /\ Moves(r)
      /\ req[r].pc = "insert" /\ SamePair(r, s)
      /\ PostById(req[r].arg) # {} )
    => /\ ( req[s].pc = "insert" /\ LikesOf(req[r].arg, req[r].cur) = {} )
            => /\ req'[r].status = 200
               /\ Cardinality({l \in likes' : l.post_id = req[r].arg
                                              /\ l.user_id = req[r].cur}) = 1
       /\ ( Done(s) /\ req[s].status = 200 /\ req[r].ov /\ req[s].ov
            /\ LikesOf(req[r].arg, req[r].cur) # {} )
            => req'[r].status = 409 /\ likes' = likes

\* C3: of two POST /api/likes of one account for one existing post that are
\* in flight together, the one whose insert comes first while the pair has no
\* Like row is answered 200 and leaves exactly one row, the other is then
\* answered 409 and changes nothing; once both are answered there is exactly
\* one Like row, no answer is 500 and at most one is 200.
C3_ConcurrentLikes ==
    /\ [](\A r \in Slots : C3_Outcome(r, Other(r)))
    /\ [][\A r \in Slots : C3_Race(r, Other(r))]_vars

C3_Witness ==
    /\ Done(1) /\ Done(2) /\ SamePair(1, 2) /\ req[1].ov /\ req[2].ov
    /\ {req[1].status, req[2].status} = {200, 409}
    /\ Cardinality(likes) = 1

C4_Unlike(r) ==
    ( /\ Moves(r)
      /\ req'[r].op = "unlike"
      /\ HasAccount(req'[r].caller) )
    => LET pid == req'[r].arg
           uid == AccountOf(req'[r].caller)
       IN /\ likes' \subseteq likes
          /\ \A l \in likes \ likes' : l.post_id = pid /\ l.user_id = uid
          /\ posts' = posts /\ comments' = comments /\ follows' = follows
          /\ LikesOf(pid, uid) = {} => likes' = likes
          /\ req'[r].pc = "idle" =>
                /\ req'[r].status = 200
                /\ {l \in likes' : l.post_id = pid /\ l.user_id = uid} = {}

\* C4: every step of a DELETE /api/likes of an account removes at most that
\* account's Like rows for that post and nothing else; when the account has
\* no Like row for the post the Like relation stays as it was; the request is
\* answered 200.
C4_UnlikeFrame == [][\A r \in Slots : C4_Unlike(r)]_vars

C4_Witness ==
    \E r \in Slots :
        /\ Done(r) /\ req[r].op = "unlike" /\ req[r].status = 200
        /\ LikesOf(req[r].arg, AccountOf(req[r].caller)) = {}
        /\ LikesOfPost(req[r].arg) # {}

ListAnswered(r) ==
    /\ Done(r) /\ req[r].op = "getPosts" /\ req[r].status = 200
    /\ "posts" \in req[r].q

DetailAnswered(r) ==
    Done(r) /\ req[r].op = "getPost" /\ req[r].status = 200

CountsExact(e) ==
    /\ e.likesCount = Cardinality(LikesOfPost(e.id))
    /\ e.commentsCount = Cardinality(CommentsOfPost(e.id))

\* C5: with no other request in flight, when the query of post_stats
\* succeeded, every post of a GET /api/posts answer and the post of a
\* GET /api/posts/[postId] answer carries likesCount = the number of Like rows
\* and commentsCount = the number of Comment rows that reference it now.
C5_StatsExact ==
    \A r \in Slots :
        /\ (ListAnswered(r) /\ "stats" \notin req[r].loc.err)
              => \A i \in 1..Len(req[r].body.posts) :
                    CountsExact(req[r].body.posts[i])
        /\ (DetailAnswered(r) /\ "stats" \notin req[r].loc.err)
              => CountsExact(req[r].body)

C5_Witness ==
    \E r \in Slots :
        /\ ListAnswered(r) /\ "stats" \notin req[r].loc.err
        /\ Len(req[r].body.posts) = 2
        /\ \E i, k \in 1..2 :
              /\ req[r].body.posts[i].likesCount = 2
              /\ req[r].body.posts[i].commentsCount >= 1
              /\ req[r].body.posts[k].likesCount = 0

IsPreview(rc, all) ==
    /\ Len(rc) = Min(PreviewSize, Cardinality(all))
    /\ \A j \in 1..Len(rc) : rc[j] \in all
    /\ \A j, k \in 1..Len(rc) : j # k => rc[j] # rc[k]
    /\ \A j, k \in 1..Len(rc) : j < k => rc[j].created_at >= rc[k].created_at
    /\ \A c \in all \ SeqSet(rc) :
          \A j \in 1..Len(rc) : c.created_at <= rc[j].created_at

\* C6: when the query of comments succeeded, recentComments of every post of
\* a GET /api/posts answer has min(2, n) entries for the n comments of the
\* post, all of them comments of that post, newest first, and no comment
\* left out is newer than one that is in.
C6_Preview ==
    \A r \in Slots :
        (ListAnswered(r) /\ "comments" \notin req[r].loc.err)
           => \A i \in 1..Len(req[r].body.posts) :
                 IsPreview(req[r].body.posts[i].recentComments,
                           CommentsOfPost(req[r].body.posts[i].id))

C6_Witness ==
    \E r \in Slots :
        /\ ListAnswered(r) /\ "comments" \notin req[r].loc.err
        /\ Len(req[r].body.posts) = 2
        /\ \E i, k \in 1..2 :
              LET rc == req[r].body.posts[i].recentComments IN
              /\ i # k
              /\ Cardinality(CommentsOfPost(req[r].body.posts[i].id)) = 3
              /\ Len(rc) = 2
              /\ \E c \in CommentsOfPost(req[r].body.posts[i].id) \ SeqSet(rc) :
                    c.created_at < rc[2].created_at
              /\ req[r].body.posts[k].recentComments = <<>>

C8_Anonymous ==
    \A r \in Slots :
        (req[r].op = "getPosts" /\ req[r].caller = NoCaller)
           => /\ req[r].status # 401
              /\ "likes" \notin req[r].q
              /\ Done(r) => \/ req[r].status = 200
                            \/ req[r].status = 500 /\ "posts" \in req[r].loc.err
              /\ (Done(r) /\ req[r].status = 200)
                    => \A i \in 1..Len(req[r].body.posts) :
                          ~req[r].body.posts[i].isLiked

C8_Witness ==
    \E r \in Slots :
        /\ ListAnswered(r) /\ req[r].caller = NoCaller
        /\ \E i \in 1..Len(req[r].body.posts) :
              LikesOfPost(req[r].body.posts[i].id) # {}

OwnerOps == {"deleteComment", "editPost", "deletePost"}

TargetOf(op, id) == IF op = "deleteComment" THEN CommentById(id) ELSE PostById(id)

\* a request of an account for an existing comment or post of another account
\* enters slot r
NonAuthorEnters(r) ==
    /\ req[r].pc = "idle" /\ Moves(r)
    /\ req'[r].op \in OwnerOps
    /\ HasAccount(req'[r].caller)
    /\ \E t \in TargetOf(req'[r].op, req'[r].arg) :
          t.user_id # AccountOf(req'[r].caller)

NonAuthorStatus(rec) ==
    IF rec.op = "editPost" /\ ~rec.inp.json THEN 500
    ELSE IF rec.op = "editPost" /\ CaptionTooLong(rec.inp.text) THEN 400
    ELSE 403

StoreUnchanged == Store' = Store /\ users' = users

\* C9 (as amended): a DELETE of a comment, a PUT of a post or a DELETE of a
\* post by an account that is not the author of the existing target is
\* answered at once and changes no row and no stored media; the answer is 403,
\* except for a PUT whose body does not parse (500) or whose caption is a
\* string longer than 2200 characters after trimming (400).
C9_NonAuthor ==
    [][\A r \in Slots :
          NonAuthorEnters(r)
             => /\ req'[r].pc = "idle"
                /\ req'[r].status = NonAuthorStatus(req'[r])
                /\ StoreUnchanged]_vars

\* C9 (as stated): such a request is always answered 403 and changes nothing.
C9_AlwaysForbidden ==
    [][\A r \in Slots :
          NonAuthorEnters(r)
             => /\ req'[r].status = 403
                /\ StoreUnchanged]_vars

C9_Witness ==
    \E r \in Slots :
        /\ Done(r) /\ req[r].op = "deletePost" /\ req[r].status = 403
        /\ HasAccount(req[r].caller)
        /\ \E p \in PostById(req[r].arg) :
              /\ p.user_id # AccountOf(req[r].caller)
              /\ LikesOfPost(p.id) # {}
              /\ CommentsOfPost(p.id) # {}
              /\ PathOfUrl(p.image_url) \in blobs

NoSelfFollowRow == \A f \in follows : f.follower_id # f.following_id

\* C10 (as amended): a POST /api/follows of a caller whose users row exists
\* and whose followingId is the id of that row is answered 400; a caller
\* without a users row is answered 404 whatever followingId names; and no
\* state has a Follow row whose follower_id equals its following_id.
C10_SelfFollow ==
    /\ NoSelfFollowRow
    /\ \A r \in Slots :
          (Done(r) /\ req[r].op = "follow" /\ req[r].caller # NoCaller
             /\ req[r].arg # Missing)
             => /\ (HasAccount(req[r].caller)
                      /\ req[r].arg = AccountOf(req[r].caller))
                      => req[r].status = 400
                /\ ~HasAccount(req[r].caller) => req[r].status = 404

\* C10 (as stated): a POST /api/follows whose followingId is the caller's own
\* account id is answered 400 whether or not a users row exists, and no state
\* has a Follow row whose follower_id equals its following_id.
C10_AlwaysInvalid ==
    /\ NoSelfFollowRow
    /\ \A r \in Slots :
          (Done(r) /\ req[r].op = "follow" /\ req[r].caller # NoCaller
             /\ req[r].arg = Uid(req[r].caller))
             => req[r].status = 400

C10_Witness ==
    \E r \in Slots :
        /\ Done(r) /\ req[r].op = "follow" /\ req[r].status = 400
        /\ HasAccount(req[r].caller)
        /\ req[r].arg = AccountOf(req[r].caller)
        /\ follows # {}

PositionOf(r, i) == Offset(req[r].inp.page, req[r].inp.limit) + i

SameListing(r, s) ==
    /\ ListAnswered(r) /\ ListAnswered(s)
    /\ req[r].arg = req[s].arg
    /\ req[r].inp.limit = req[s].inp.limit

\* C1: for one filter and one limit on an unchanged store, the posts of the
\* pages put one after the other never increase in createdAt, and every post
\* has one position in that listing, the same in every request: a post is at
\* position n of one answer exactly when it is at position n of another.
C1_Pagination ==
    \A r, s \in Slots :
        SameListing(r, s) =>
            \A i \in 1..Len(req[r].body.posts), j \in 1..Len(req[s].body.posts) :
                LET a == req[r].body.posts[i]
                    b == req[s].body.posts[j]
                IN /\ PositionOf(r, i) < PositionOf(s, j)
                         => a.createdAt >= b.createdAt
                   /\ (a.id = b.id) <=> (PositionOf(r, i) = PositionOf(s, j))

\* C11: a PUT /api/posts/[postId] of the author of the post whose caption is
\* the empty string is answered 200 and leaves the caption of the post null,
\* not an empty string.
C11_EmptyCaption ==
    \A r \in Slots :
        ( /\ Done(r) /\ req[r].op = "editPost"
          /\ req[r].inp.json /\ req[r].inp.text = EmptyText
          /\ HasAccount(req[r].caller) )
        => \A p \in PostById(req[r].arg) :
              p.user_id = AccountOf(req[r].caller)
                 => /\ req[r].status = 200
                    /\ p.caption = Null
                    /\ p.caption # EmptyText

C11_Witness ==
    \E r \in Slots :
        /\ Done(r) /\ req[r].op = "editPost" /\ req[r].status = 200
        /\ req[r].inp.text = EmptyText
        /\ \E p \in PostById(req[r].arg) :
              /\ p.user_id = AccountOf(req[r].caller)
              /\ p.caption = Null
              /\ p.updated_at > p.created_at

\* no Like or Comment row references a post that does not exist
NoOrphanRows ==
    /\ \A l \in likes : PostById(l.post_id) # {}
    /\ \A c \in comments : PostById(c.post_id) # {}

\* the post id was given out and no row has it, nor will a request in flight
\* insert it
Gone(pid) ==
    /\ pid < nextPost
    /\ PostById(pid) = {}
    /\ \A r \in Slots :
          ~(req[r].op = "createPost" /\ InFlight(r) /\ req[r].loc.path = pid)

C12_Step(r) ==
    /\ ( /\ req[r].op = "deletePost" /\ req[r].pc = "delete"
         /\ Moves(r) /\ req'[r].status = 200 )
       => /\ Gone(req[r].arg)'
          /\ \A l \in likes' : l.post_id # req[r].arg
          /\ \A c \in comments' : c.post_id # req[r].arg
    /\ ( /\ req[r].pc = "idle" /\ Moves(r)
         /\ req'[r].op = "getPost" /\ Gone(req'[r].arg) )
       => req'[r].pc = "idle" /\ req'[r].status = 404
    /\ ( /\ req[r].pc = "idle" /\ Moves(r)
         /\ req'[r].op = "getPosts" /\ req'[r].pc = "stats" )
       => \A i \in 1..Len(req'[r].loc.rows) : ~Gone(req'[r].loc.rows[i].id)

\* C12: the step of DELETE /api/posts/[postId] that answers 200 leaves no
\* post, Like or Comment row of that id; a post id that is gone stays gone;
\* every GET /api/posts/[postId] entered for an id that is gone is answered
\* 404; the page query of every GET /api/posts entered returns no post that is
\* gone; and no Like or Comment row ever references a missing post.
C12_AfterDelete ==
    /\ []NoOrphanRows
    /\ [][/\ \A pid \in PostIds : Gone(pid) => Gone(pid)'
          /\ \A r \in Slots : C12_Step(r)]_vars

C12_Witness ==
    /\ Done(1) /\ req[1].op = "deletePost" /\ req[1].status = 200
    /\ Done(2) /\ req[2].op = "getPost" /\ req[2].status = 404
    /\ req[2].arg = req[1].arg /\ ~req[2].ov
    /\ posts # {}

\* a DELETE /api/posts/[postId] of the author of an existing post enters slot r
AuthorDeleteEnters(r) ==
    /\ req[r].pc = "idle" /\ Moves(r)
    /\ req'[r].op = "deletePost"
    /\ HasAccount(req'[r].caller)
    /\ \E p \in PostById(req'[r].arg) : p.user_id = AccountOf(req'[r].caller)

C13_Step(r) ==
    /\ AuthorDeleteEnters(r) => req'[r].pc \in {"remove", "delete"}
    /\ (req[r].op = "deletePost" /\ req[r].pc = "remove" /\ Moves(r))
          => req'[r].pc = "delete" /\ posts' = posts
    /\ (req[r].op = "deletePost" /\ req[r].pc = "delete" /\ Moves(r))
          => \/ req'[r].status = 200 /\ PostById(req[r].arg)' = {}
             \/ req'[r].status = 500 /\ posts' = posts

\* C13: a DELETE /api/posts/[postId] of the author of an existing post goes
\* on to the deletion of the row whatever happens to the stored media -- the
\* storage client cannot be obtained, or the removal fails -- and, unless the
\* deletion of the row itself fails, the row is deleted and the answer is 200.
C13_MediaFailure == [][\A r \in Slots : C13_Step(r)]_vars

InsertFailed(r) ==
    /\ Done(r) /\ req[r].op = "createPost" /\ req[r].status = 500
    /\ req[r].cur # Missing
    /\ "insert" \in req[r].loc.err

C14_Step(r) ==
    /\ ( /\ req[r].op = "createPost" /\ req[r].pc = "insert" /\ Moves(r)
         /\ posts' = posts )
       => req'[r].pc = "cleanup" /\ blobs' = blobs
    /\ ( req[r].op = "createPost" /\ req[r].pc = "cleanup" /\ Moves(r) )
       => /\ req'[r].pc = "idle" /\ req'[r].status = 500
          /\ posts' = posts
          /\ blobs' = IF "remove" \in req'[r].loc.err THEN blobs
                      ELSE blobs \ {req[r].loc.path}

\* C14: when the insert of a POST /api/posts fails after the upload, the
\* handler goes on to remove the uploaded object and then answers 500 whether
\* or not the removal succeeds; no post row of the request exists; and when
\* the removal succeeded the object of the request is not in storage.
C14_InsertFailure ==
    /\ [](\A r \in Slots :
            InsertFailed(r)
               => /\ PostById(req[r].loc.path) = {}
                  /\ "remove" \notin req[r].loc.err
                        => req[r].loc.path \notin blobs)
    /\ [][\A r \in Slots : C14_Step(r)]_vars

C14_Witness ==
    \E r \in Slots :
        /\ InsertFailed(r) /\ "remove" \notin req[r].loc.err
        /\ req[r].loc.path \notin blobs
        /\ blobs # {} /\ posts # {}

ViewerLikesPost(k, pid) == HasAccount(k) /\ LikesOf(pid, AccountOf(k)) # {}

Degraded(r, e) ==
    /\ IF "stats" \in req[r].loc.err
       THEN e.likesCount = 0 /\ e.commentsCount = 0
       ELSE CountsExact(e)
    /\ IF "likes" \in req[r].loc.err
       THEN ~e.isLiked
       ELSE e.isLiked <=> ViewerLikesPost(req[r].caller, e.id)
    /\ IF "comments" \in req[r].loc.err
       THEN e.recentComments = <<>>
       ELSE IsPreview(e.recentComments, CommentsOfPost(e.id))

\* C15: a GET /api/posts whose query of posts succeeded is answered 200
\* whichever of the queries of post_stats, likes and comments fail; the answer
\* holds the posts of the page query in its order; a part whose query failed
\* has its zero value (counts 0, isLiked false, no recentComments) and every
\* other part is what the store holds.
C15_Degrade ==
    \A r \in Slots :
        (Done(r) /\ req[r].op = "getPosts" /\ "posts" \in req[r].q
           /\ "posts" \notin req[r].loc.err)
        => /\ req[r].status = 200
           /\ Len(req[r].body.posts) = Len(req[r].loc.rows)
           /\ \A i \in 1..Len(req[r].body.posts) :
                 /\ req[r].body.posts[i].id = req[r].loc.rows[i].id
                 /\ Degraded(r, req[r].body.posts[i])

C15_Witness ==
    \E r \in Slots :
        /\ ListAnswered(r)
        /\ req[r].loc.err = {"stats"}
        /\ \E i \in 1..Len(req[r].body.posts) :
              LET e == req[r].body.posts[i] IN
              /\ LikesOfPost(e.id) # {} /\ e.likesCount = 0
              /\ e.isLiked
              /\ e.recentComments # <<>>

FanOut == {"post_stats", "likes", "comments"}

\* C16: a GET /api/posts whose page query returned no post queries none of
\* post_stats, likes and comments, and is answered 200 with no posts.
C16_EmptyPage ==
    \A r \in Slots :
        ( /\ req[r].op = "getPosts" /\ "posts" \in req[r].q
          /\ "posts" \notin req[r].loc.err
          /\ req[r].loc.rows = <<>> )
        => /\ req[r].q \cap FanOut = {}
           /\ Done(r) => req[r].status = 200 /\ req[r].body.posts = <<>>

Unresolved(k) == k # Missing /\ \A u \in users : u.clerk_id # k

\* C17: a GET /api/posts whose userId filter names no users row is answered
\* at once, with 200, no posts, total 0 and hasMore false, and queries none of
\* posts, post_stats, likes and comments.
C17_UnresolvedFilter ==
    \A r \in Slots :
        (req[r].op = "getPosts" /\ Unresolved(req[r].arg))
        => /\ Done(r) /\ req[r].status = 200
           /\ req[r].body = [posts |-> <<>>, total |-> 0, hasMore |-> FALSE]
           /\ req[r].q \cap ({"posts"} \cup FanOut) = {}

C17_Witness ==
    \E r \in Slots :
        /\ Done(r) /\ req[r].op = "getPosts" /\ Unresolved(req[r].arg)
        /\ req[r].status = 200 /\ req[r].body.posts = <<>>
        /\ posts # {}

\* the posts a filter matches: all of them without a filter, those of the
\* account the filter names otherwise
Matching(k) ==
    IF k = Missing THEN posts
    ELSE {p \in posts : \E u \in users : u.clerk_id = k /\ u.id = p.user_id}

\* C18: for page >= 1 and limit >= 1 on an unchanged store, hasMore of every
\* 200 answer of GET /api/posts equals (number of posts returned = limit), and
\* when hasMore is false the posts the filter matches are no more than the
\* offset of the page plus the posts returned.
C18_HasMore ==
    \A r \in Slots :
        (Done(r) /\ req[r].op = "getPosts" /\ req[r].status = 200)
        => LET n == Len(req[r].body.posts) IN
           /\ req[r].body.hasMore <=> (n = req[r].inp.limit)
           /\ n < req[r].inp.limit => ~req[r].body.hasMore
           /\ ~req[r].body.hasMore
                 => Cardinality(Matching(req[r].arg))
                       <= Offset(req[r].inp.page, req[r].inp.limit) + n

C18_Witness ==
    \E r \in Slots :
        /\ ListAnswered(r) /\ ~req[r].body.hasMore
        /\ req[r].inp.page = 2 /\ req[r].inp.limit = 2
        /\ Cardinality(Matching(req[r].arg)) = 2
        /\ req[r].body.posts = <<>>

\* C19: a POST /api/likes of a caller with a users row for a postId that no
\* post has is answered 404 and creates no Like row.
C19_LikeMissingPost ==
    \A r \in Slots :
        ( /\ Done(r) /\ req[r].op = "like"
          /\ HasAccount(req[r].caller)
          /\ req[r].arg # Missing /\ PostById(req[r].arg) = {} )
        => /\ req[r].status = 404
           /\ LikesOfPost(req[r].arg) = {}

OneFollowPerPair ==
    \A a, b \in follows :
        (a.follower_id = b.follower_id /\ a.following_id = b.following_id)
           => a = b

C20_Step(r) ==
    /\ ( /\ Moves(r) /\ req'[r].op = "follow"
         /\ HasAccount(req'[r].caller)
         /\ FollowsOf(AccountOf(req'[r].caller), req'[r].arg) # {} )
       => /\ follows' = follows
          /\ req'[r].pc = "idle" => req'[r].status = 409
    /\ ( /\ Moves(r) /\ req'[r].op = "unfollow"
         /\ HasAccount(req'[r].caller)
         /\ req'[r].arg # Missing
         /\ FollowsOf(AccountOf(req'[r].caller), req'[r].arg) = {} )
       => /\ follows' = follows
          /\ req'[r].pc = "idle" => req'[r].status = 200

\* C20: every step of a POST /api/follows of an account that already follows
\* the target leaves the Follow relation as it was and the request is
\* answered 409; with requests running together no state has two Follow rows
\* for one (follower, following); every step of a DELETE /api/follows for a
\* target the account does not follow changes nothing and is answered 200.
C20_FollowIdempotent ==
    []OneFollowPerPair /\ [][\A r \in Slots : C20_Step(r)]_vars

C20_Witness ==
    /\ Done(1) /\ Done(2)
    /\ req[1].op = "follow" /\ req[2].op = "follow"
    /\ req[1].ov /\ req[2].ov
    /\ req[1].caller = req[2].caller /\ req[1].arg = req[2].arg
    /\ {req[1].status, req[2].status} = {200, 409}
    /\ Cardinality(FollowsOf(AccountOf(req[1].caller), req[1].arg)) = 1


\* The content the claim calls acceptable: a string whose trimmed form has
\* 1..2200 characters.
Acceptable(content) ==
    /\ IsText(content)
    /\ Length(Trim(content)) >= 1
    /\ Length(Trim(content)) <= MaxCaption

CommentEnters(r) ==
    /\ req[r].pc = "idle" /\ Moves(r)
    /\ req'[r].op = "createComment"
    /\ HasAccount(req'[r].caller)
    /\ PostById(req'[r].arg) # {}

\* C21: a POST /api/comments of a caller with a users row on an existing post
\* is accepted exactly when the trimmed content has 1..2200 characters; an
\* accepted request adds exactly one new row of the caller with the trimmed
\* content, and every stored comment has 1..2200 characters.
C21_CommentAccepted ==
    [][\A r \in Slots :
        /\ CommentEnters(r)
              => ((req'[r].pc = "insert") <=> Acceptable(req'[r].inp.text))
        /\ ( /\ req[r].op = "createComment" /\ req[r].pc = "insert"
             /\ req'[r].pc = "idle" /\ req'[r].status = 200 )
              => \E row \in comments' \ comments :
                    /\ comments' = comments \cup {row}
                    /\ row.user_id = AccountOf(req[r].caller)
                    /\ row.post_id = req[r].arg
                    /\ row.content = Trim(req[r].inp.text)
        /\ \A c \in comments' :
              Length(c.content) >= 1 /\ Length(c.content) <= MaxCaption
      ]_vars

\* C22: a DELETE /api/comments/[commentId] is answered with success only by
\* a step that removes the comment row; a request of a caller with a users
\* row for a comment that does not exist is answered 404; no two requests
\* for the same comment are both answered with success.
C22_DeleteOnce ==
    [][/\ \A r \in Slots :
            /\ ( /\ req[r].pc = "idle" /\ Moves(r)
                 /\ req'[r].op = "deleteComment"
                 /\ HasAccount(req'[r].caller)
                 /\ CommentById(req'[r].arg) = {} )
                  => req'[r].pc = "idle" /\ req'[r].status = 404
            /\ ( /\ req[r].op = "deleteComment" /\ req[r].pc = "delete"
                 /\ req'[r].pc = "idle" /\ req'[r].status = 200 )
                  => /\ CommentById(req[r].arg) # {}
                     /\ comments' = comments \ CommentById(req[r].arg)
       /\ ~ \E r \in Slots :
              /\ Done(r)' /\ Done(Other(r))'
              /\ req'[r].op = "deleteComment"
              /\ req'[Other(r)].op = "deleteComment"
              /\ req'[r].arg = req'[Other(r)].arg
              /\ req'[r].status = 200 /\ req'[Other(r)].status = 200
      ]_vars

MutatingOps == {"createPost", "editPost", "deletePost", "like", "unlike",
                "createComment", "deleteComment", "follow", "unfollow"}
Rejections == {400, 401, 403, 404}

\* C23: a mutating request that is answered 400, 401, 403 or 404 is answered
\* by its first step, and that step changes no relation and no stored
\* object; a mutating request without a verified caller is answered 401.
C23_Rejected ==
    [][\A r \in Slots :
        /\ ( /\ Moves(r) /\ req'[r].pc = "idle"
             /\ req'[r].op \in MutatingOps
             /\ req'[r].status \in Rejections )
              => req[r].pc = "idle" /\ StoreUnchanged
        /\ ( /\ req[r].pc = "idle" /\ Moves(r)
             /\ req'[r].op \in MutatingOps
             /\ req'[r].caller = NoCaller )
              => req'[r].pc = "idle" /\ req'[r].status = 401
      ]_vars

C23_Witness ==
    \E r \in Slots :
        /\ Done(r) /\ req[r].op = "deletePost" /\ req[r].status = 403
        /\ PostById(req[r].arg) # {}
        /\ likes # {} /\ comments # {} /\ follows # {}

\* C24: with no other request in flight, in a GET /api/posts answer to a
\* caller with a users row, when the query of likes succeeded, isLiked of a
\* post is true exactly when a Like row of (that post, the caller's users.id)
\* exists; a like of another account does not make it true.
C24_IsLiked ==
    \A r \in Slots :
        (ListAnswered(r) /\ HasAccount(req[r].caller)
           /\ "likes" \notin req[r].loc.err)
        => \A i \in 1..Len(req[r].body.posts) :
              LET e == req[r].body.posts[i] IN
              e.isLiked <=> (\E l \in likes :
                                /\ l.post_id = e.id
                                /\ l.user_id = AccountOf(req[r].caller))

C24_Witness ==
    \E r \in Slots :
        /\ ListAnswered(r) /\ HasAccount(req[r].caller)
        /\ \E i, j \in 1..Len(req[r].body.posts) :
              /\ req[r].body.posts[i].isLiked
              /\ ~req[r].body.posts[j].isLiked
              /\ LikesOfPost(req[r].body.posts[j].id) # {}

\* C25: with the store as the request found it, a GET /api/posts with
\* page >= 1 and limit >= 1 (page 1 and limit 10 when the parameter is absent)
\* answers with at most limit posts, which are the posts at positions
\* (page-1)*limit .. page*limit-1 (0-based) of a newest-first arrangement of
\* the posts the filter matches, as many as that arrangement has there.
C25_Page ==
    \A r \in Slots :
        LET page == IF req[r].inp.page = Absent THEN 1 ELSE req[r].inp.page
            limit == IF req[r].inp.limit = Absent THEN 10 ELSE req[r].inp.limit
            n == Cardinality(Matching(req[r].arg))
            got == req[r].body.posts
        IN (ListAnswered(r) /\ page >= 1 /\ limit >= 1)
           => /\ Len(got) <= limit
              /\ Len(got) = IF n <= (page - 1) * limit THEN 0
                            ELSE Min(n, page * limit) - (page - 1) * limit
              /\ \E ord \in DescOrders(Matching(req[r].arg)) :
                    \A i \in 1..Len(got) :
                        got[i].id = ord[(page - 1) * limit + i].id

C25_Witness ==
    \E r \in Slots :
        /\ ListAnswered(r)
        /\ req[r].inp.page = 2 /\ req[r].inp.limit = 1
        /\ Cardinality(Matching(req[r].arg)) = 2
        /\ Len(req[r].body.posts) = 1
        /\ \A p \in Matching(req[r].arg) :
              p.created_at >= req[r].body.posts[1].createdAt

\* C26: in every 200 answer of GET /api/posts whose queries all succeeded,
\* whatever other requests ran between its queries, every post has no more
\* recentComments than min(2, commentsCount), and isLiked only with
\* likesCount >= 1.
C26_Consistent ==
    \A r \in Slots :
        (ListAnswered(r) /\ req[r].loc.err = {})
        => \A i \in 1..Len(req[r].body.posts) :
              LET e == req[r].body.posts[i] IN
              /\ Len(e.recentComments) <= Min(PreviewSize, e.commentsCount)
              /\ e.isLiked => e.likesCount >= 1

\* C27: when a DELETE /api/posts/[postId] has been answered with an error and
\* no other request is in flight, the post row, if it is still there, still
\* has its stored media object: no failed delete request has removed it.
C27_FailedDelete ==
    \A r \in Slots :
        ( /\ Done(r) /\ req[r].op = "deletePost" /\ req[r].status # 200
          /\ ~InFlight(Other(r)) )
        => \A p \in PostById(req[r].arg) :
              PathOfUrl(p.image_url) \in blobs

\* C28: the request the post grid of the profile page of an existing account
\* makes (its userId parameter is the users.id the page handed over) is
\* answered 200 with exactly the posts of that account, newest first.
C28_ProfileGrid ==
    \A r \in Slots :
        ( /\ Done(r) /\ req[r].op = "getPosts"
          /\ req[r].arg \in AccountIds /\ UserById(req[r].arg) # {} )
        => /\ req[r].status = 200
           /\ {req[r].body.posts[i].id : i \in 1..Len(req[r].body.posts)}
                 = {p.id : p \in {x \in posts : x.user_id = req[r].arg}}
           /\ \A i, j \in 1..Len(req[r].body.posts) :
                 i < j => req[r].body.posts[i].createdAt
                             >= req[r].body.posts[j].createdAt

\* C29: every stored caption is null or a trimmed string of 1..2200
\* characters; an empty or blank caption is never stored as a string.
C29_StoredCaption ==
    \A p \in posts :
        \/ p.caption = Null
        \/ /\ IsText(p.caption)
           /\ p.caption = Trim(p.caption)
           /\ Length(p.caption) >= 1
           /\ Length(p.caption) <= MaxCaption

FeedIds == {feed.posts[i].id : i \in 1..Len(feed.posts)}

\* the feed has loaded its last page and waits for nothing
FeedComplete ==
    /\ feed.mounted /\ ~feed.hasMore /\ ~feed.loading /\ ~feed.error
    /\ \A r \in Slots : ~Fetching(r)

\* a post that was there before a listed post was created, is still there,
\* and is not in the list
Skipped(p) ==
    /\ p.id \notin FeedIds
    /\ \E i \in 1..Len(feed.posts) : feed.posts[i].createdAt > p.created_at

\* C30: the list of PostFeed never holds a post twice; once the feed has
\* loaded its last page it has skipped no post that exists; and no two calls
\* of fetchPosts are waiting for their answers at the same time.
C30_Feed ==
    /\ \A i, j \in 1..Len(feed.posts) :
          i # j => feed.posts[i].id # feed.posts[j].id
    /\ FeedComplete => \A p \in posts : ~Skipped(p)
    /\ ~(\A r \in Slots : Fetching(r))
====
